---- MODULE Spec2Model ----
(***************************************************************************)
(* Shared-order ledger of the SupplyLink backend (src/main.py).            *)
(*                                                                         *)
(* The store is a MongoDB database reached through the module global `db`. *)
(* Requests are served concurrently: every store access of a handler is    *)
(* one atomic step, the steps of different requests interleave freely.     *)
(* Documents are records; the collections keep insertion order.            *)
(* Document fields no handler of the ledger reads (deadline, the seeded    *)
(* suppliers' and products' descriptive fields) are left out.              *)
(***************************************************************************)
EXTENDS Integers, Sequences, FiniteSets, TLC

\* Number of requests served in one behaviour (each call slot serves one).
MaxCalls == 2

Calls == 1..MaxCalls

VARIABLES
    db,             \* the global `db`: "None" or "connected"
    document_class, \* db's codec_options.document_class: "dict", or a
                    \* "custom" class that has an objectid_class attribute
    supplier,       \* collection db["supplier"]
    product,        \* collection db["product"]
    sharedorder,    \* collection db["sharedorder"]
    next_oid,       \* the next ObjectId the store generates
    phase,          \* "import" (module being loaded) or "serving"
    pc,             \* per call: position in its handler
    req,            \* per call: the request's parameters
    doc,            \* per call: the handler's local `doc` (<<>> is None)
    resp,           \* per call: the HTTP response
    alone,          \* per call (history): no other request was in flight
    pre             \* per call (history): the target order right before
                    \* this call's update_one (<<>> before the update)

vars == <<db, document_class, supplier, product, sharedorder, next_oid,
          phase, pc, req, doc, resp, alone, pre>>

store == <<db, document_class, supplier, product, sharedorder, next_oid, phase>>

None == "None"

-----------------------------------------------------------------------------
(* ObjectIds and their string form *)

\* The hexadecimal string forms of the ObjectIds the store can generate,
\* in the order it generates them.
OidHex == <<"0a1", "0a2", "0a3", "0a4", "0a5", "0a6", "0a7", "0a8", "0a9">>

\* str(oid)
Str(oid) == OidHex[oid]

\* ObjectId(s) raises InvalidId unless s is the string form of an ObjectId.
IsValidObjectId(s) == \E i \in DOMAIN OidHex : OidHex[i] = s

\* ObjectId(s), for a valid s
ObjectId(s) == CHOOSE i \in DOMAIN OidHex : OidHex[i] = s

-----------------------------------------------------------------------------
(* The document store (pymongo collection operations) *)

\* create_document(collection, data): insert, the store assigns `_id`
create_document(coll, data, oid) == Append(coll, ("_id" :> oid) @@ data)

\* get_documents(collection): every document, in natural order
get_documents(coll) == coll

\* collection.find_one({"_id": oid}): <<d>> for the first match, <<>> for None
find_one(coll, oid) ==
    IF \E i \in DOMAIN coll : coll[i]._id = oid
    THEN <<coll[CHOOSE i \in DOMAIN coll :
                  /\ coll[i]._id = oid
                  /\ \A j \in 1..(i - 1) : coll[j]._id # oid]>>
    ELSE <<>>

\* collection.find({}).limit(n)
find_limit(coll, n) == SubSeq(coll, 1, IF Len(coll) < n THEN Len(coll) ELSE n)

\* The participant entry pushed by a pledge
Participant(name, email, qty) == [name |-> name, email |-> email, qty |-> qty]

\* Variant: the $push is dropped, the order is only incremented.
update_one_inc_only(coll, oid, qty, entry) ==
    [i \in DOMAIN coll |->
        IF coll[i]._id = oid
        THEN [coll[i] EXCEPT !.pledged_qty = @ + qty]
        ELSE coll[i]]

\* Variant: the entry is inserted at the front of participants.
update_one_prepend(coll, oid, qty, entry) ==
    [i \in DOMAIN coll |->
        IF coll[i]._id = oid
        THEN [coll[i] EXCEPT !.pledged_qty = @ + qty,
                             !.participants = <<entry>> \o @]
        ELSE coll[i]]

\* collection.update_one({"_id": oid}, {"$inc": {"pledged_qty": qty},
\*                                      "$push": {"participants": entry}})
\* One document is updated, both modifiers in one atomic write.
update_one(coll, oid, qty, entry) ==
    [i \in DOMAIN coll |->
        IF /\ coll[i]._id = oid
           /\ \A j \in 1..(i - 1) : coll[j]._id # oid
        THEN [coll[i] EXCEPT !.pledged_qty = @ + qty,
                             !.participants = Append(@, entry)]
        ELSE coll[i]]

\* Variant: the id is added but _id is not popped.
RenameId_keep(it) ==
    [k \in DOMAIN it \cup {"id"} |->
        IF k = "id"
        THEN (IF "_id" \in DOMAIN it THEN Str(it["_id"]) ELSE "")
        ELSE it[k]]

\* it["id"] = str(it.pop("_id", ""))
RenameId(it) ==
    [k \in (DOMAIN it \ {"_id"}) \cup {"id"} |->
        IF k = "id"
        THEN (IF "_id" \in DOMAIN it THEN Str(it["_id"]) ELSE "")
        ELSE it[k]]

-----------------------------------------------------------------------------
(* Seeding: ensure_demo_data, run once while the module is imported *)

SeedSuppliers ==
    <<[name |-> "NovaFab Industries"],
      [name |-> "GreenThread Textiles"],
      [name |-> "Form & Flow Plastics"]>>

SeedProducts(supplier_ids) ==
    <<[title |-> "Smart LED Panel", supplier_id |-> supplier_ids[1],
       min_order_qty |-> 200],
      [title |-> "Organic Cotton T-Shirt", supplier_id |-> supplier_ids[2],
       min_order_qty |-> 500],
      [title |-> "Injection Molded Enclosure", supplier_id |-> supplier_ids[3],
       min_order_qty |-> 1000]>>

\* Variant: the orders are created with the schema's defaults.
SeedSharedOrders_defaults(prod_docs) ==
    <<[product_id |-> Str(prod_docs[1]._id),
       supplier_id |-> prod_docs[1].supplier_id,
       min_qty |-> prod_docs[1].min_order_qty,
       pledged_qty |-> 0,
       participants |-> <<>>],
      [product_id |-> Str(prod_docs[2]._id),
       supplier_id |-> prod_docs[2].supplier_id,
       min_qty |-> prod_docs[2].min_order_qty,
       pledged_qty |-> 0,
       participants |-> <<>>]>>

SeedSharedOrders(prod_docs) ==
    <<[product_id |-> Str(prod_docs[1]._id),
       supplier_id |-> prod_docs[1].supplier_id,
       min_qty |-> prod_docs[1].min_order_qty,
       pledged_qty |-> 140,
       participants |->
          <<Participant("Atlas Retail", "atlas@example.com", 100),
            Participant("Local Boutique", "boutique@example.com", 40)>>],
      [product_id |-> Str(prod_docs[2]._id),
       supplier_id |-> prod_docs[2].supplier_id,
       min_qty |-> prod_docs[2].min_order_qty,
       pledged_qty |-> 460,
       participants |->
          <<Participant("Gym Chain", "gym@example.com", 300),
            Participant("Boutique", "fashion@example.com", 160)>>]>>

\* for d in docs: create_document(collection, d)
RECURSIVE InsertAll(_, _, _)
InsertAll(coll, docs, oid) ==
    IF docs = <<>> THEN coll
    ELSE InsertAll(create_document(coll, Head(docs), oid), Tail(docs), oid + 1)

-----------------------------------------------------------------------------
(* Requests *)

\* Path parameter order_id: the two seeded orders, a well-formed id of no
\* order, and a string that is no ObjectId.
OrderIdInputs == {OidHex[7], OidHex[8], OidHex[9], "not-an-objectid"}

\* Query parameter qty
QtyInputs == {-1, 0, 20, 50}

\* Query parameters <<name, email>>: both absent (None) or both given
NameEmailInputs == {<<None, None>>, <<"NewBuyer", "new@example.com">>}

\* name: str = Query("Guest")
DefaultName(name) == IF name = None THEN "Guest" ELSE name

\* Variant: the lower bound is 0.
QtyValid_ge0(qty) == qty >= 0

\* qty: int = Query(..., ge=1)
QtyValid(qty) == qty >= 1

NoRequest == [kind |-> "none", order_id |-> "", qty |-> 0,
              name |-> "", email |-> None]

NoResponse == [status |-> 0, detail |-> "", body |-> <<>>]

Response(status, detail, body) ==
    [status |-> status, detail |-> detail, body |-> body]

\* FastAPI's answer to an exception no handler catches
InternalServerError == Response(500, "Internal Server Error", <<>>)

InFlight(c) == pc[c] \notin {"idle", "done"}

\* History: a request arrives for call c
Arrive(c) ==
    alone' = [d \in Calls |->
                IF d = c THEN \A e \in Calls \ {c} : ~InFlight(e)
                ELSE IF InFlight(d) THEN FALSE ELSE alone[d]]

-----------------------------------------------------------------------------
Init ==
    /\ db \in {None, "connected"}
    /\ document_class \in (IF db = None THEN {None} ELSE {"dict", "custom"})
    /\ supplier = <<>>
    /\ product = <<>>
    /\ sharedorder = <<>>
    /\ next_oid = 1
    /\ phase = "import"
    /\ pc = [c \in Calls |-> "idle"]
    /\ req = [c \in Calls |-> NoRequest]
    /\ doc = [c \in Calls |-> <<>>]
    /\ resp = [c \in Calls |-> NoResponse]
    /\ alone = [c \in Calls |-> FALSE]
    /\ pre = [c \in Calls |-> <<>>]

\* ensure_demo_data(): any exception ends the seeding silently, keeping
\* what was inserted before it.
ensure_demo_data ==
    /\ phase = "import"
    /\ phase' = "serving"
    /\ IF db = None
       THEN UNCHANGED <<supplier, product, sharedorder, next_oid>>
       ELSE LET sup == IF Len(supplier) = 0
                       THEN InsertAll(supplier, SeedSuppliers, next_oid)
                       ELSE supplier
                oid1 == next_oid + (Len(sup) - Len(supplier))
                supplier_ids == [i \in DOMAIN find_limit(sup, 3) |->
                                    Str(sup[i]._id)]
                prodRaises == Len(product) = 0 /\ Len(supplier_ids) < 3
                prod == IF Len(product) = 0 /\ ~prodRaises
                        THEN InsertAll(product, SeedProducts(supplier_ids), oid1)
                        ELSE product
                oid2 == oid1 + (Len(prod) - Len(product))
                prod_docs == find_limit(prod, 3)
                soRaises == Len(sharedorder) = 0 /\ Len(prod_docs) < 2
                so == IF Len(sharedorder) = 0 /\ ~prodRaises /\ ~soRaises
                      THEN InsertAll(sharedorder, SeedSharedOrders(prod_docs), oid2)
                      ELSE sharedorder
            IN  /\ supplier' = sup
                /\ product' = prod
                /\ sharedorder' = so
                /\ next_oid' = oid2 + (Len(so) - Len(sharedorder))
    /\ UNCHANGED <<db, document_class, pc, req, doc, resp, alone, pre>>

\* GET /api/shared-orders
list_shared_orders(c) ==
    /\ phase = "serving"
    /\ pc[c] = "idle"
    /\ Arrive(c)
    /\ req' = [req EXCEPT ![c] = [NoRequest EXCEPT !.kind = "list"]]
    /\ pc' = [pc EXCEPT ![c] = "done"]
    /\ IF db = None
       THEN resp' = [resp EXCEPT ![c] = InternalServerError]
       ELSE LET items == get_documents(sharedorder)
            IN  resp' = [resp EXCEPT ![c] =
                    Response(200, "", [i \in DOMAIN items |-> RenameId(items[i])])]
    /\ UNCHANGED <<store, doc, pre>>

\* POST /api/shared-orders/{order_id}/pledge: the request is validated
\* against the handler's signature before the handler's body runs.
pledge_validate(c) ==
    /\ phase = "serving"
    /\ pc[c] = "idle"
    /\ Arrive(c)
    /\ \E order_id \in OrderIdInputs, qty \in QtyInputs, ne \in NameEmailInputs :
          /\ req' = [req EXCEPT ![c] =
                        [kind |-> "pledge", order_id |-> order_id, qty |-> qty,
                         name |-> DefaultName(ne[1]), email |-> ne[2]]]
          /\ IF QtyValid(qty)
             THEN /\ pc' = [pc EXCEPT ![c] = "l223"]
                  /\ UNCHANGED resp
             ELSE /\ pc' = [pc EXCEPT ![c] = "done"]
                  /\ resp' = [resp EXCEPT ![c] =
                                Response(422, "greater_than_equal", <<>>)]
    /\ UNCHANGED <<store, doc, pre>>

\* line 223: if db is None: raise HTTPException(500)
pledge_check_db(c) ==
    /\ pc[c] = "l223"
    /\ IF db = None
       THEN /\ pc' = [pc EXCEPT ![c] = "done"]
            /\ resp' = [resp EXCEPT ![c] =
                          Response(500, "Database not available", <<>>)]
       ELSE /\ pc' = [pc EXCEPT ![c] = "l225"]
            /\ UNCHANGED resp
    /\ UNCHANGED <<store, req, doc, alone, pre>>

\* line 225: the filter's value is
\*   <db>.codec_options.document_class.objectid_class(order_id)
\* evaluated outside any try: it raises AttributeError when document_class
\* (dict unless the client was configured otherwise) has no attribute
\* objectid_class, and InvalidId when order_id is no ObjectId string.
pledge_find(c) ==
    /\ pc[c] = "l225"
    /\ IF document_class = "dict" \/ ~IsValidObjectId(req[c].order_id)
       THEN /\ pc' = [pc EXCEPT ![c] = "done"]
            /\ resp' = [resp EXCEPT ![c] = InternalServerError]
            /\ UNCHANGED doc
       ELSE /\ pc' = [pc EXCEPT ![c] = "l227"]
            /\ doc' = [doc EXCEPT ![c] =
                         find_one(sharedorder, ObjectId(req[c].order_id))]
            /\ UNCHANGED resp
    /\ UNCHANGED <<store, req, alone, pre>>

\* lines 227-234: the fallback lookup, then 404 when there is still no doc
pledge_fallback(c) ==
    /\ pc[c] = "l227"
    /\ LET found == IF doc[c] # <<>> THEN doc[c]
                    ELSE IF IsValidObjectId(req[c].order_id)
                         THEN find_one(sharedorder, ObjectId(req[c].order_id))
                         ELSE <<>>
       IN  /\ doc' = [doc EXCEPT ![c] = found]
           /\ IF found = <<>>
              THEN /\ pc' = [pc EXCEPT ![c] = "done"]
                   /\ resp' = [resp EXCEPT ![c] =
                                 Response(404, "Shared order not found", <<>>)]
              ELSE /\ pc' = [pc EXCEPT ![c] = "l235"]
                   /\ UNCHANGED resp
    /\ UNCHANGED <<store, req, alone, pre>>

\* Variant: the order is written back from the document read at line 225
\* (read, modify, write) instead of updated in place.
pledge_update_rmw(c) ==
    /\ pc[c] = "l235"
    /\ sharedorder' =
          [i \in DOMAIN sharedorder |->
              IF sharedorder[i]._id = doc[c][1]._id
              THEN [doc[c][1] EXCEPT
                      !.pledged_qty = @ + req[c].qty,
                      !.participants = Append(@,
                          Participant(req[c].name, req[c].email, req[c].qty))]
              ELSE sharedorder[i]]
    /\ pre' = [pre EXCEPT ![c] = find_one(sharedorder, doc[c][1]._id)]
    /\ pc' = [pc EXCEPT ![c] = "l236"]
    /\ UNCHANGED <<db, document_class, supplier, product, next_oid, phase,
                   req, doc, resp, alone>>

\* line 235: update_one with $inc and $push
pledge_update(c) ==
    /\ pc[c] = "l235"
    /\ sharedorder' = update_one(sharedorder, doc[c][1]._id, req[c].qty,
                         Participant(req[c].name, req[c].email, req[c].qty))
    /\ pre' = [pre EXCEPT ![c] = find_one(sharedorder, doc[c][1]._id)]
    /\ pc' = [pc EXCEPT ![c] = "l236"]
    /\ UNCHANGED <<db, document_class, supplier, product, next_oid, phase,
                   req, doc, resp, alone>>

\* lines 236-238: re-read the order, rename its _id, return it
pledge_reread(c) ==
    /\ pc[c] = "l236"
    /\ LET updated == find_one(sharedorder, doc[c][1]._id)
       IN  resp' = [resp EXCEPT ![c] =
              IF updated = <<>> THEN InternalServerError
              ELSE Response(200, "", <<RenameId(updated[1])>>)]
    /\ pc' = [pc EXCEPT ![c] = "done"]
    /\ UNCHANGED <<store, req, doc, alone, pre>>

Next ==
    \/ ensure_demo_data
    \/ \E c \in Calls : list_shared_orders(c)
    \/ \E c \in Calls : pledge_validate(c)
    \/ \E c \in Calls : pledge_check_db(c)
    \/ \E c \in Calls : pledge_find(c)
    \/ \E c \in Calls : pledge_fallback(c)
    \/ \E c \in Calls : pledge_update(c)
    \/ \E c \in Calls : pledge_reread(c)

Spec == Init /\ [][Next]_vars

-----------------------------------------------------------------------------
(* Vocabulary of the properties *)

RECURSIVE SumQty(_)
SumQty(participants) ==
    IF participants = <<>> THEN 0
    ELSE Head(participants).qty + SumQty(Tail(participants))

RECURSIVE SumReqQty(_)
SumReqQty(S) ==
    IF S = {} THEN 0
    ELSE LET c == CHOOSE x \in S : TRUE
         IN  req[c].qty + SumReqQty(S \ {c})

IsPrefix(s, t) == Len(s) <= Len(t) /\ SubSeq(t, 1, Len(s)) = s

Done(c) == pc[c] = "done"
IsPledge(c) == req[c].kind = "pledge"
IsList(c) == req[c].kind = "list"

\* The order a pledge's order_id names, <<>> when it names none
Target(c) ==
    IF IsValidObjectId(req[c].order_id)
    THEN find_one(sharedorder, ObjectId(req[c].order_id))
    ELSE <<>>

\* The entry call c pledges
Entry(c) == Participant(req[c].name, req[c].email, req[c].qty)

\* Pledge calls that answered 200 for the order with this _id
Succeeded(oid) ==
    {c \in Calls : /\ IsPledge(c) /\ Done(c) /\ resp[c].status = 200
                   /\ IsValidObjectId(req[c].order_id)
                   /\ ObjectId(req[c].order_id) = oid}

\* The orders as ensure_demo_data created them (product does not change
\* after the seeding)
Created ==
    IF Len(product) < 2 THEN <<>> ELSE SeedSharedOrders(find_limit(product, 3))

\* No pledge has updated the store yet
NoPledgeYet == \A c \in Calls : pre[c] = <<>>

\* The terminal outcome of a finished pledge call
Outcome(c) ==
    CASE resp[c].status = 200 -> "Updated"
      [] resp[c].status = 404 -> "NotFound"
      [] resp[c].status = 422 -> "InvalidArgument"
      [] resp[c].status = 500 /\ db = None -> "ServiceUnavailable"
      [] OTHER -> "Unhandled"

TypeOK ==
    /\ \A c \in Calls :
          pc[c] \in {"idle", "l223", "l225", "l227", "l235", "l236", "done"}
    /\ db \in {None, "connected"}
    /\ phase \in {"import", "serving"}

-----------------------------------------------------------------------------
(* Properties *)

\* What a reader holds of an order agrees with itself
Consistent(o) == o.pledged_qty = SumQty(o.participants)

\* C1: in every reachable state every shared order has pledged_qty equal to
\* the sum of its participants' qty, and so has every order a reader was
\* given: each item of a list response and the record a pledge re-read.
C1_PledgedIsSum ==
    /\ \A i \in DOMAIN sharedorder : Consistent(sharedorder[i])
    /\ \A c \in Calls :
          resp[c].status = 200 =>
             \A k \in DOMAIN resp[c].body : Consistent(resp[c].body[k])

\* C1 witness: a list request has read an order that a pledge had updated.
C1_Witness ==
    \E c \in Calls :
       /\ IsList(c) /\ resp[c].status = 200
       /\ \E k \in DOMAIN resp[c].body :
             /\ Len(resp[c].body[k].participants) = 3
             /\ resp[c].body[k].pledged_qty = 510

\* C2: once every call has completed, each order's pledged_qty is the value
\* it was created with plus the qty of every pledge call that succeeded on
\* it, and its participants are as many more as calls succeeded.
C2_NoLostUpdate ==
    (phase = "serving" /\ \A c \in Calls : Done(c)) =>
       \A i \in DOMAIN sharedorder :
          LET o == sharedorder[i]
              ok == Succeeded(o._id)
          IN  /\ o.pledged_qty = Created[i].pledged_qty + SumReqQty(ok)
              /\ Len(o.participants) =
                    Len(Created[i].participants) + Cardinality(ok)
              /\ \A c \in ok : \E k \in DOMAIN o.participants :
                    o.participants[k] = Entry(c)

\* C2 witness: two pledges of different qty on the same order, overlapping
\* in time, have both completed successfully.
C2_Witness ==
    \E c, d \in Calls :
       /\ c # d /\ Done(c) /\ Done(d)
       /\ c \in Succeeded(7) /\ d \in Succeeded(7)
       /\ req[c].qty = 20 /\ req[d].qty = 50
       /\ ~alone[c] /\ ~alone[d]
       /\ sharedorder[1].pledged_qty = 210

\* C3: a pledge with the store available, an order_id of an existing order
\* and qty >= 1, served while no other request is in flight, answers 200
\* with pledged_qty grown by qty and this call's entry appended last.
C3_PledgeAloneSucceeds ==
    \A c \in Calls :
       (/\ Done(c) /\ IsPledge(c) /\ alone[c]
        /\ db = "connected" /\ QtyValid(req[c].qty) /\ Target(c) # <<>>)
       => /\ resp[c].status = 200
          /\ pre[c] # <<>>
          /\ LET r == resp[c].body[1]
             IN  /\ r.pledged_qty = pre[c][1].pledged_qty + req[c].qty
                 /\ Len(r.participants) = Len(pre[c][1].participants) + 1
                 /\ r.participants[Len(r.participants)] = Entry(c)

C5_UnknownIsNotFound ==
    \A c \in Calls :
       (/\ Done(c) /\ IsPledge(c) /\ db = "connected" /\ QtyValid(req[c].qty)
        /\ Target(c) = <<>>)
       => /\ resp[c].status = 404
          /\ pre[c] = <<>>
          /\ Len(sharedorder) = Len(Created)

\* C6: a pledge with qty < 1 is answered 422 before the handler runs, so it
\* never reaches the update; and every participant of every order has
\* qty >= 1.
C6_InvalidQtyRejected ==
    /\ \A c \in Calls :
          (IsPledge(c) /\ req[c].qty < 1) =>
             /\ Done(c)
             /\ resp[c].status = 422
             /\ doc[c] = <<>> /\ pre[c] = <<>>
    /\ \A i \in DOMAIN sharedorder :
          \A k \in DOMAIN sharedorder[i].participants :
             sharedorder[i].participants[k].qty >= 1

\* C6 witness: pledges with qty 0 and with a negative qty were rejected
\* while the orders are as created.
C6_Witness ==
    /\ \E c, d \in Calls :
          /\ IsPledge(c) /\ req[c].qty = 0 /\ resp[c].status = 422
          /\ IsPledge(d) /\ req[d].qty = -1 /\ resp[d].status = 422
    /\ Len(sharedorder) = 2
    /\ \A i \in DOMAIN sharedorder :
          /\ sharedorder[i].pledged_qty = Created[i].pledged_qty
          /\ sharedorder[i].participants = Created[i].participants

\* C7: with the store unavailable a pledge (qty >= 1) answers 500 without
\* touching an order; every finished pledge has one of the four outcomes
\* (updated record, NotFound, InvalidArgument, ServiceUnavailable); and no
\* order is ever left with the increment but not the entry, or the reverse.
C7_TerminalOutcomes ==
    /\ \A c \in Calls :
          (Done(c) /\ IsPledge(c)) =>
             /\ Outcome(c) \in {"Updated", "NotFound", "InvalidArgument",
                                "ServiceUnavailable"}
             /\ (db = None /\ QtyValid(req[c].qty)) =>
                   /\ Outcome(c) = "ServiceUnavailable"
                   /\ pre[c] = <<>>
    /\ \A i \in DOMAIN sharedorder : Consistent(sharedorder[i])

\* C8: a step changes a shared order only by the update of a pledge call,
\* which goes on to answer 200; that step adds the call's qty (>= 1) to
\* pledged_qty and appends the call's entry as the last participant; no
\* step removes an order, lowers pledged_qty or alters the earlier
\* participants.
C8_Step ==
    /\ phase = "serving" => Len(sharedorder') = Len(sharedorder)
    /\ \A i \in DOMAIN sharedorder :
          /\ i \in DOMAIN sharedorder'
          /\ sharedorder'[i].pledged_qty >= sharedorder[i].pledged_qty
          /\ IsPrefix(sharedorder[i].participants, sharedorder'[i].participants)
          /\ sharedorder'[i] # sharedorder[i] =>
                \E c \in Calls :
                   /\ pc[c] = "l235" /\ pc'[c] = "l236"
                   /\ doc[c][1]._id = sharedorder[i]._id
                   /\ req[c].qty >= 1
                   /\ sharedorder'[i] =
                        [sharedorder[i] EXCEPT
                           !.pledged_qty = @ + req[c].qty,
                           !.participants = Append(@, Entry(c))]
    /\ \A c \in Calls :
          (pc[c] = "l236" /\ pc'[c] = "done") => resp'[c].status = 200

\* C8: every step of every behaviour changes shared orders only as
\* C8_Step allows (pledged_qty never decreases, participants only grow at
\* the end, and only by a successful pledge's update).
C8_OnlyPledgeGrows == [][C8_Step]_vars

\* C8 witness: both calls have pledged to the second order, one after the
\* other's entry.
C8_Witness ==
    /\ Len(sharedorder) = 2
    /\ Len(sharedorder[2].participants) = 4
    /\ sharedorder[2].participants[3].qty = 50
    /\ sharedorder[2].participants[4].qty = 20
    /\ sharedorder[2].pledged_qty = 530

\* C9: right after ensure_demo_data has seeded the empty collection, before
\* any pledge, every order has pledged_qty 0 and no participants.
C9_CreatedEmpty ==
    (phase = "serving" /\ NoPledgeYet) =>
       \A i \in DOMAIN sharedorder :
          /\ sharedorder[i].pledged_qty = 0
          /\ sharedorder[i].participants = <<>>

\* C9, amended: right after ensure_demo_data has seeded the empty
\* collection of an available store, before any pledge, there are two
\* orders, with pledged_qty 140 and 460, each with two participants whose
\* qty sum to its pledged_qty.
C9_SeededWithParticipants ==
    (phase = "serving" /\ db = "connected" /\ NoPledgeYet) =>
       /\ Len(sharedorder) = 2
       /\ sharedorder[1].pledged_qty = 140
       /\ sharedorder[2].pledged_qty = 460
       /\ \A i \in DOMAIN sharedorder :
             /\ Len(sharedorder[i].participants) = 2
             /\ Consistent(sharedorder[i])

\* C9 witness: the store has just been seeded and no request has arrived.
C9_Witness ==
    /\ phase = "serving" /\ db = "connected"
    /\ \A c \in Calls : pc[c] = "idle"
    /\ Len(sharedorder) = 2
    /\ sharedorder[2].participants[1].name = "Gym Chain"

\* C10: a list request on an available store answers with one item per
\* order of the store, in order, each the order with its _id removed and
\* id set to the string form of that _id; and the step changes nothing of
\* the store.
C10_Step ==
    \A c \in Calls :
       (pc[c] = "idle" /\ pc'[c] = "done" /\ req'[c].kind = "list"
        /\ db = "connected")
       => /\ resp'[c].status = 200
          /\ Len(resp'[c].body) = Len(sharedorder)
          /\ \A i \in DOMAIN sharedorder :
                LET it == resp'[c].body[i]
                IN  /\ "_id" \notin DOMAIN it
                    /\ "id" \in DOMAIN it
                    /\ it.id = OidHex[sharedorder[i]._id]
                    /\ \A k \in DOMAIN sharedorder[i] \ {"_id"} :
                          k \in DOMAIN it /\ it[k] = sharedorder[i][k]
          /\ store' = store

\* C10: every list step returns every order under its external id,
\* without _id, and leaves the store as it was.
C10_ListIsPure == [][C10_Step]_vars

\* C10 witness: a list response carries both orders under their external
\* ids, after one of them received a pledge.
C10_Witness ==
    \E c \in Calls :
       /\ IsList(c) /\ resp[c].status = 200
       /\ Len(resp[c].body) = 2
       /\ resp[c].body[1].id = "0a7" /\ resp[c].body[2].id = "0a8"
       /\ Len(resp[c].body[1].participants) = 3

====
